---- MODULE Spec2Model ----
(***************************************************************************)
(* Model of q, the AI-powered terminal command assistant: main.rs (the     *)
(* linear pipeline), config.rs (load / validate), ai/openrouter.rs (the    *)
(* single chat-completion request and the parsing of its reply) and        *)
(* executor.rs (confirmation, {{VAR}} substitution, subshell execution).   *)
(* Text is modelled as sequences of one-character strings; Option<T> as a  *)
(* sequence of length 0 (None) or 1 (Some).                                *)
(***************************************************************************)
EXTENDS Integers, Sequences, FiniteSets, TLC

VARIABLES cli, file, pc, exit, config, query, context, provider, response,
          suggestion, auto_confirm, should_execute, vars, final_command,
          variables_found, inputs, child, stdout, stderr, stages, completed,
          httpRequests, confirmPrompts, confirmAnswer, spawned

allVars == <<cli, file, pc, exit, config, query, context, provider, response,
              suggestion, auto_confirm, should_execute, vars, final_command,
              variables_found, inputs, child, stdout, stderr, stages,
              completed, httpRequests, confirmPrompts, confirmAnswer,
              spawned>>

(***************************************************************************)
(* Bounds of the model.                                                    *)
(***************************************************************************)
MaxTokens == 3
MaxExitCode == 2

None == <<>>
Some(v) == <<v>>

(***************************************************************************)
(* Text helpers.                                                           *)
(***************************************************************************)
\* str::trim strips the characters with the Unicode White_Space property:
\* U+0009..U+000D, U+0020, U+0085, U+00A0, and those beyond U+00FF, which
\* are written here by their code point names
WhiteSpace ==
    {"\t", "\n", "", "\f", "\r", " ", "", " ",
     "U+1680", "U+2000", "U+2001", "U+2002", "U+2003", "U+2004", "U+2005",
     "U+2006", "U+2007", "U+2008", "U+2009", "U+200A", "U+2028", "U+2029",
     "U+202F", "U+205F", "U+3000"}

RECURSIVE TrimStart(_)
TrimStart(s) ==
    IF s # <<>> /\ Head(s) \in WhiteSpace THEN TrimStart(Tail(s)) ELSE s

RECURSIVE TrimEnd(_)
TrimEnd(s) ==
    IF s # <<>> /\ s[Len(s)] \in WhiteSpace
    THEN TrimEnd(SubSeq(s, 1, Len(s) - 1)) ELSE s

Trim(s) == TrimEnd(TrimStart(s))

RECURSIVE Join(_, _)
Join(parts, sep) ==
    IF parts = <<>> THEN <<>>
    ELSE IF Len(parts) = 1 THEN parts[1]
    ELSE parts[1] \o sep \o Join(Tail(parts), sep)

RECURSIVE Flatten(_)
Flatten(ss) == IF ss = <<>> THEN <<>> ELSE Head(ss) \o Flatten(Tail(ss))

Contains(seq, x) == \E i \in 1..Len(seq) : seq[i] = x

(***************************************************************************)
(* executor.rs: the placeholder regex \{\{([A-Z0-9_]+)\}\}.                *)
(***************************************************************************)
VarChars == {"A","B","C","D","E","F","G","H","I","J","K","L","M","N","O","P",
             "Q","R","S","T","U","V","W","X","Y","Z",
             "0","1","2","3","4","5","6","7","8","9","_"}

RECURSIVE RunLen(_, _)
RunLen(s, j) ==
    IF j <= Len(s) /\ s[j] \in VarChars THEN 1 + RunLen(s, j + 1) ELSE 0

\* length of the regex match that starts at position i of s, 0 when none
MatchAt(s, i) ==
    IF i + 1 <= Len(s) /\ s[i] = "{" /\ s[i + 1] = "{"
    THEN LET n == RunLen(s, i + 2)
         IN  IF n >= 1 /\ i + 3 + n <= Len(s)
                /\ s[i + 2 + n] = "}" /\ s[i + 3 + n] = "}"
             THEN n + 4 ELSE 0
    ELSE 0

\* re.captures_iter(command): group 1 of the leftmost non-overlapping matches
RECURSIVE CapturesIter(_, _)
CapturesIter(s, i) ==
    IF i > Len(s) THEN <<>>
    ELSE LET m == MatchAt(s, i)
         IN  IF m > 0
             THEN <<SubSeq(s, i + 2, i + m - 3)>> \o CapturesIter(s, i + m)
             ELSE CapturesIter(s, i + 1)

\* the loop body without the vars.contains check
PushAlways(acc, name) == Append(acc, name)

\* executor.rs:113-118, the loop body: push unless vars.contains(&var_name)
PushUnique(acc, name) == IF Contains(acc, name) THEN acc ELSE Append(acc, name)

RECURSIVE UniqueVars(_, _)
UniqueVars(caps, acc) ==
    IF caps = <<>> THEN acc
    ELSE UniqueVars(Tail(caps), PushUnique(acc, Head(caps)))

\* format!("{{{{{}}}}}", var)
Placeholder(var) == <<"{", "{">> \o var \o <<"}", "}">>

IsPrefixAt(s, pat, i) ==
    /\ i + Len(pat) - 1 <= Len(s)
    /\ \A k \in 1..Len(pat) : s[i + k - 1] = pat[k]

\* str::replace(pat, val): every non-overlapping occurrence, left to right
RECURSIVE ReplaceFrom(_, _, _, _)
ReplaceFrom(s, pat, val, i) ==
    IF i > Len(s) THEN <<>>
    ELSE IF IsPrefixAt(s, pat, i)
         THEN val \o ReplaceFrom(s, pat, val, i + Len(pat))
         ELSE <<s[i]>> \o ReplaceFrom(s, pat, val, i + 1)

Replace(s, pat, val) == ReplaceFrom(s, pat, val, 1)

\* executor.rs:131, one iteration of the substitution loop
SubstituteVar(cmd, var, value) == Replace(cmd, Placeholder(var), value)

(***************************************************************************)
(* config.rs                                                               *)
(***************************************************************************)
PlaceholderKey == <<"s","k","-","o","r","-","v","1","-",".",".",".">>
RealKey == <<"s","k","-","o","r","-","v","1","-","7","f">>

DefaultModel == "anthropic/claude-4.5-sonnet"
DefaultBaseUrl == "https://openrouter.ai/api/v1"

OpenRouterConfig(key, model) ==
    [api_key |-> key, model |-> model, base_url |-> DefaultBaseUrl]

DefaultConfig ==
    [ai |-> [default_provider |-> "openrouter", openrouter |-> None],
     execution |-> [auto_confirm |-> FALSE, show_explanation |-> TRUE,
                    copy_to_clipboard |-> FALSE],
     context |-> [include_shell_info |-> TRUE, include_directory |-> TRUE,
                  include_history |-> FALSE, shell |-> None]]

Ok(v) == [ok |-> TRUE, val |-> v]
Err(msg) == [ok |-> FALSE, val |-> msg]

\* Config::load on the config file; fsOk is whether the filesystem calls succeed
Load(f, fsOk) ==
    IF ~fsOk THEN Err("Failed to read config file")
    ELSE IF f.state = "missing" THEN Ok(DefaultConfig)
    ELSE IF f.state = "malformed" THEN Err("Failed to parse config file")
    ELSE Ok(f.content)

ConfigFile(c) == [state |-> "present", content |-> c]
MissingFile == [state |-> "missing", content |-> DefaultConfig]
MalformedFile == [state |-> "malformed", content |-> DefaultConfig]

\* the file after Config::load: a missing file is created with the defaults
FileAfterLoad(f, fsOk) ==
    IF fsOk /\ f.state = "missing" THEN ConfigFile(DefaultConfig) ELSE f

\* config.rs:105-106, what Config::load writes to stderr
LoadNotices(f, fsOk) ==
    IF fsOk /\ f.state = "missing"
    THEN <<[text |-> "Created default config at", code |-> None],
           [text |-> "Please edit this file to add your OpenRouter API key.",
            code |-> None]>>
    ELSE <<>>

\* validate checking only for an empty key
KeyNonEmpty(key) == key # <<>>

KeyConfigured(key) == ~(key = <<>> \/ key = PlaceholderKey)

\* Config::validate
Validate(c) ==
    IF c.ai.default_provider = "openrouter"
    THEN IF c.ai.openrouter # None
         THEN IF KeyConfigured(c.ai.openrouter[1].api_key)
              THEN Ok("")
              ELSE Err("OpenRouter API key not configured")
         ELSE Err("OpenRouter is set as default provider but not configured")
    ELSE Err("Unknown provider")

(***************************************************************************)
(* models.rs                                                               *)
(***************************************************************************)
RECURSIVE LastSegment(_)
\* shell.split('/').last()
LastSegment(s) ==
    IF Contains(s, "/") THEN LastSegment(Tail(s)) ELSE s

\* detect_shell on a Unix build: $SHELL's last path segment, else "bash"
DetectShell(shellEnv) ==
    IF shellEnv # None THEN LastSegment(shellEnv[1]) ELSE <<"b","a","s","h">>

\* SystemContext::gather
Gather(shell_override, shellEnv) ==
    [os |-> "linux",
     shell |-> IF shell_override # None THEN shell_override[1]
               ELSE DetectShell(shellEnv),
     current_dir |-> "/home/user"]

(***************************************************************************)
(* ai/openrouter.rs                                                        *)
(***************************************************************************)
BuildSystemPrompt(ctx) ==
    <<"System Information", ctx.os, ctx.shell, ctx.current_dir,
      "Generate commands appropriate for", ctx.shell, ctx.os>>

ChatRequest(cfg, q, ctx) ==
    [url |-> <<cfg.base_url, "/chat/completions">>,
     authorization |-> <<"Bearer ", cfg.api_key>>,
     model |-> cfg.model,
     messages |-> <<[role |-> "system", content |-> BuildSystemPrompt(ctx)],
                    [role |-> "user", content |-> q]>>]

IsSuccess(status) == status >= 200 /\ status <= 299

JStr(s) == [t |-> "string", s |-> s]
JNull == [t |-> "null", s |-> <<>>]
JNum == [t |-> "number", s |-> <<>>]

CommandSuggestion(c, e, w) == [command |-> c, explanation |-> e, warning |-> w]

\* a field that is present but whose type is not checked
HasField(fields, name) == name \in DOMAIN fields

HasString(fields, name) == name \in DOMAIN fields /\ fields[name].t = "string"

\* Option<String>: an absent field and null are None
WarningOk(fields) ==
    "warning" \in DOMAIN fields => fields["warning"].t \in {"string", "null"}

WarningOf(fields) ==
    IF "warning" \in DOMAIN fields /\ fields["warning"].t = "string"
    THEN Some(fields["warning"].s) ELSE None

\* the three fields have the types CommandSuggestion gives them
FieldsOk(fields) ==
    /\ HasString(fields, "command")
    /\ HasString(fields, "explanation")
    /\ WarningOk(fields)

\* serde_json::from_str::<CommandSuggestion>(&content). The derived
\* Deserialize takes a JSON object (visit_map) and also a JSON array
\* (visit_seq) of exactly the three fields in declaration order; the fields
\* of an array content are its elements, named by the field each lands on.
ParseSuggestion(content) ==
    IF \/ /\ content.kind = "object"
          /\ FieldsOk(content.fields)
       \/ /\ content.kind = "array"
          /\ DOMAIN content.fields = {"command", "explanation", "warning"}
          /\ FieldsOk(content.fields)
    THEN Ok(CommandSuggestion(content.fields["command"].s,
                              content.fields["explanation"].s,
                              WarningOf(content.fields)))
    ELSE Err("Failed to parse AI response as JSON")

\* generate_command after the response arrived (openrouter.rs:110-131)
ReadResponse(resp) ==
    IF ~IsSuccess(resp.status) THEN Err("OpenRouter API error")
    ELSE IF ~resp.body.chat THEN Err("Failed to parse OpenRouter response")
    ELSE IF resp.body.choices = <<>> THEN Err("No response from AI")
    ELSE ParseSuggestion(resp.body.choices[1])

(***************************************************************************)
(* executor.rs: the pieces of handle_suggestion and execute_command.       *)
(***************************************************************************)
\* a confirmation prompt that defaults to yes
ConfirmDefaultYes == TRUE

\* Confirm::new().default(false): Enter alone takes the default
ConfirmDefault == FALSE

ConfirmResult(answer) ==
    IF answer = "y" THEN TRUE
    ELSE IF answer = "n" THEN FALSE
    ELSE ConfirmDefault

\* the -y flag left out of the effective auto-confirm
ConfigAutoConfirmOnly(yes, cfgAuto) == cfgAuto

\* main.rs:136
EffectiveAutoConfirm(yes, cfgAuto) == yes \/ cfgAuto

\* executor.rs:39-49, the answer being what the user types when prompted
ShouldExecute(auto, answer) == IF auto THEN TRUE ELSE ConfirmResult(answer)

\* cfg!(windows) of the build that is modelled
Windows == FALSE

ShellInvocation(command) ==
    IF Windows THEN <<"powershell", "-NoProfile", "-Command", command>>
    ELSE <<"bash", "-c", command>>

\* ExitStatus::success
StatusSuccess(status) == status = Some(0)

\* a missing exit code reported as 1
CodeOrOne(status) == IF status # None THEN status[1] ELSE 1

\* output.status.code().unwrap_or(-1)
CodeOrMinusOne(status) == IF status # None THEN status[1] ELSE -1

(***************************************************************************)
(* Inputs of a run.                                                        *)
(***************************************************************************)
Tokens == {Placeholder(<<"A">>), Placeholder(<<"B">>), <<"x">>,
           Placeholder(<<"a">>)}

Commands ==
    {Flatten(ts) : ts \in UNION {[1..n -> Tokens] : n \in 0..MaxTokens}}

Values == {<<"v">>, Placeholder(<<"B">>)}

Queries ==
    {<<>>, << <<" ">> >>, << <<>>, <<>> >>, << <<"\f", " ">> >>,
     << <<"l","s">>, <<"-","l">> >>}

ApiKeys == {<<>>, PlaceholderKey, RealKey}

Configs ==
    {[ai |-> [default_provider |-> p, openrouter |-> o],
      execution |-> [auto_confirm |-> a, show_explanation |-> e,
                     copy_to_clipboard |-> FALSE],
      context |-> [include_shell_info |-> TRUE, include_directory |-> TRUE,
                   include_history |-> FALSE, shell |-> None]] :
        p \in {"openrouter", "ollama"},
        o \in {None}
               \cup {Some(OpenRouterConfig(k, DefaultModel)) : k \in ApiKeys},
        a \in BOOLEAN, e \in BOOLEAN}

Files == {MissingFile, MalformedFile} \cup {ConfigFile(c) : c \in Configs}

Clis ==
    [command : {None, Some("Config")}, query : Queries,
     config_path : BOOLEAN, yes : BOOLEAN]

StdinLines == {<<"\n">>, <<" ", "\n">>, <<"k", "9", "\n">>}

ShellEnvs == {None, Some(<<"/","b","i","n","/","z","s","h">>)}

Explanation == <<"e">>

GoodContents ==
    {[kind |-> "object",
      fields |-> [command |-> JStr(c), explanation |-> JStr(Explanation)]] :
        c \in Commands}
    \cup {[kind |-> "object",
           fields |-> [command |-> JStr(c), explanation |-> JStr(Explanation),
                       warning |-> w]] :
            c \in Commands, w \in {JNull, JStr(<<"w">>)}}

NotJson == [kind |-> "text", fields |-> [raw |-> JStr(<<"n", "o">>)]]

BadContents ==
    {NotJson,
     [kind |-> "object", fields |-> [explanation |-> JStr(Explanation)]],
     [kind |-> "object", fields |-> [command |-> JStr(<<"x">>)]],
     [kind |-> "object",
      fields |-> [command |-> JNum, explanation |-> JStr(Explanation)]],
     [kind |-> "object",
      fields |-> [command |-> JStr(<<"x">>), explanation |-> JStr(Explanation),
                  warning |-> JNum]]}

\* contents that are JSON arrays: [command, explanation, warning], and
\* arrays that are too short or hold a value of the wrong type
ArrayContents ==
    {[kind |-> "array",
      fields |-> [command |-> JStr(c), explanation |-> JStr(Explanation),
                  warning |-> w]] :
        c \in {<<"x">>, Placeholder(<<"A">>)}, w \in {JNull, JStr(<<"w">>)}}
    \cup {[kind |-> "array",
           fields |-> [command |-> JStr(<<"x">>),
                       explanation |-> JStr(Explanation)]],
          [kind |-> "array",
           fields |-> [command |-> JNum, explanation |-> JStr(Explanation),
                       warning |-> JNull]]}

Contents == GoodContents \cup BadContents \cup ArrayContents

Bodies ==
    {[chat |-> FALSE, choices |-> <<>>], [chat |-> TRUE, choices |-> <<>>]}
    \cup {[chat |-> TRUE, choices |-> <<c>>] : c \in Contents}
    \cup {[chat |-> TRUE,
           choices |-> <<c, NotJson>>] :
            c \in {[kind |-> "object",
                    fields |-> [command |-> JStr(<<"x">>),
                                explanation |-> JStr(Explanation)]]}}

Responses ==
    {[status |-> 200, body |-> b] : b \in Bodies}
    \cup {[status |-> st, body |-> [chat |-> FALSE, choices |-> <<>>]] :
            st \in {401, 500}}

ChildStatuses == {None} \cup {Some(c) : c \in 0..MaxExitCode}

ChildResults ==
    [status : ChildStatuses, stdout : {<<>>, <<"o">>}, stderr : {<<>>, <<"e">>}]

(***************************************************************************)
(* The run: Init is the process right after Cli::parse.                    *)
(***************************************************************************)
StageOrder == <<"gather", "build", "call", "parse", "confirm", "substitute",
                "execute", "report">>

Out(tag, text) == <<tag, text>>
ErrLine(text, code) == [text |-> text, code |-> code]

Init ==
    /\ cli \in Clis
    /\ file \in Files
    /\ pc = "start"
    /\ exit = None
    /\ config = None
    /\ query = None
    /\ context = None
    /\ provider = None
    /\ response = None
    /\ suggestion = None
    /\ auto_confirm = None
    /\ should_execute = None
    /\ vars = <<>>
    /\ final_command = None
    /\ variables_found = FALSE
    /\ inputs = <<>>
    /\ child = None
    /\ stdout = <<>>
    /\ stderr = <<>>
    /\ stages = <<>>
    /\ completed = <<>>
    /\ httpRequests = <<>>
    /\ confirmPrompts = 0
    /\ confirmAnswer = None
    /\ spawned = <<>>

\* main returns Err(e): the error is printed and the process exits with 1
Fail(msgs) ==
    /\ stderr' = stderr \o msgs
    /\ exit' = Some(1)
    /\ pc' = "done"

Error(text) == <<ErrLine(text, None)>>

\* main.rs:45-50, --config-path
ShowConfigPath ==
    /\ pc = "start"
    /\ cli.config_path
    /\ \E fsOk \in BOOLEAN :
         IF fsOk
         THEN /\ stdout' = Append(stdout, Out("config path", <<>>))
              /\ exit' = Some(0)
              /\ pc' = "done"
              /\ UNCHANGED stderr
         ELSE /\ Fail(Error("Failed to get config directory"))
              /\ UNCHANGED stdout
    /\ UNCHANGED <<cli, file, config, query, context, provider, response,
                   suggestion, auto_confirm, should_execute, vars,
                   final_command, variables_found, inputs, child, stages,
                   completed, httpRequests, confirmPrompts, confirmAnswer,
                   spawned>>

\* main.rs:70-78
WithApiKey(c, api_key) ==
    IF c.ai.openrouter # None
    THEN [c EXCEPT !.ai.openrouter = Some([@[1] EXCEPT !.api_key = api_key])]
    ELSE [c EXCEPT !.ai.openrouter =
              Some(OpenRouterConfig(api_key, "anthropic/claude-3.5-sonnet"))]

\* main.rs:52-83, the config subcommand; line is what read_line returns
ConfigureCommand ==
    /\ pc = "start"
    /\ ~cli.config_path
    /\ cli.command = Some("Config")
    /\ \E fsOk \in BOOLEAN, readOk \in BOOLEAN, line \in StdinLines :
         LET loaded == Load(file, fsOk)
             base == IF loaded.ok THEN loaded.val ELSE DefaultConfig
             api_key == Trim(line)
             banner == <<Out("Configuring OpenRouter...", <<>>),
                         Out("Enter your OpenRouter API Key:", <<>>)>>
         IN  /\ pc' = "done"
             /\ IF ~readOk
                THEN /\ stdout' = stdout \o banner
                     /\ stderr' = stderr \o LoadNotices(file, fsOk)
                                         \o Error("Failed to read input")
                     /\ exit' = Some(1)
                     /\ file' = FileAfterLoad(file, fsOk)
                ELSE IF api_key = <<>>
                THEN /\ stdout' = stdout \o banner
                     /\ stderr' = stderr \o LoadNotices(file, fsOk)
                                         \o Error("API Key cannot be empty.")
                     /\ exit' = Some(1)
                     /\ file' = FileAfterLoad(file, fsOk)
                ELSE IF ~fsOk
                THEN /\ stdout' = stdout \o banner
                     /\ stderr' = stderr
                                     \o Error("Failed to save configuration")
                     /\ exit' = Some(1)
                     /\ file' = file
                ELSE /\ stdout' = stdout \o banner
                           \o <<Out("Configuration saved successfully!", <<>>)>>
                     /\ stderr' = stderr \o LoadNotices(file, fsOk)
                     /\ exit' = Some(0)
                     /\ file' = ConfigFile(WithApiKey(base, api_key))
    /\ UNCHANGED <<cli, config, query, context, provider, response,
                   suggestion, auto_confirm, should_execute, vars,
                   final_command, variables_found, inputs, child, stages,
                   completed, httpRequests, confirmPrompts, confirmAnswer,
                   spawned>>

\* main.rs:85-86
LoadConfig ==
    /\ pc = "start"
    /\ ~cli.config_path
    /\ cli.command = None
    /\ \E fsOk \in BOOLEAN :
         LET loaded == Load(file, fsOk)
         IN  /\ file' = FileAfterLoad(file, fsOk)
             /\ IF loaded.ok
                THEN /\ config' = Some(loaded.val)
                     /\ pc' = "validate"
                     /\ stderr' = stderr \o LoadNotices(file, fsOk)
                     /\ UNCHANGED exit
                ELSE /\ Fail(Error("Failed to load configuration"))
                     /\ UNCHANGED config
    /\ UNCHANGED <<cli, query, context, provider, response, suggestion,
                   auto_confirm, should_execute, vars, final_command,
                   variables_found, inputs, child, stdout, stages,
                   completed, httpRequests, confirmPrompts, confirmAnswer,
                   spawned>>

\* main.rs:88-96
ValidateConfig ==
    /\ pc = "validate"
    /\ IF Validate(config[1]).ok
       THEN /\ pc' = "query"
            /\ UNCHANGED <<exit, stderr>>
       ELSE /\ stderr' = stderr \o Error("Configuration error")
                         \o Error("To edit your config, run: q --config-path")
            /\ exit' = Some(1)
            /\ pc' = "done"
    /\ UNCHANGED <<cli, file, config, query, context, provider, response,
                   suggestion, auto_confirm, should_execute, vars,
                   final_command, variables_found, inputs, child, stdout,
                   stages, completed, httpRequests, confirmPrompts,
                   confirmAnswer, spawned>>

\* the emptiness test without the trim
IsEmptyUntrimmed(q) == q = <<>>

\* main.rs:101, query.trim().is_empty()
IsEmptyQuery(q) == Trim(q) = <<>>

\* main.rs:98-106
CheckQuery ==
    /\ pc = "query"
    /\ LET q == Join(cli.query, <<" ">>)
       IN  /\ query' = Some(q)
           /\ IF IsEmptyQuery(q)
              THEN /\ stdout' = Append(stdout, Out("help", <<>>))
                   /\ exit' = Some(0)
                   /\ pc' = "done"
              ELSE /\ pc' = "gather"
                   /\ UNCHANGED <<stdout, exit>>
    /\ UNCHANGED <<cli, file, config, context, provider, response,
                   suggestion, auto_confirm, should_execute, vars,
                   final_command, variables_found, inputs, child, stderr,
                   stages, completed, httpRequests, confirmPrompts,
                   confirmAnswer, spawned>>

\* main.rs:108-110
GatherContext ==
    /\ pc = "gather"
    /\ stages' = Append(stages, "gather")
    /\ \E cwdOk \in BOOLEAN, shellEnv \in ShellEnvs :
         IF cwdOk
         THEN /\ context' = Some(Gather(config[1].context.shell, shellEnv))
              /\ completed' = Append(completed, "gather")
              /\ pc' = "provider"
              /\ UNCHANGED <<exit, stderr>>
         ELSE /\ Fail(Error("Failed to gather system context"))
              /\ UNCHANGED <<context, completed>>
    /\ UNCHANGED <<cli, file, config, query, provider, response, suggestion,
                   auto_confirm, should_execute, vars, final_command,
                   variables_found, inputs, child, stdout, httpRequests,
                   confirmPrompts, confirmAnswer, spawned>>

\* main.rs:112-124
CreateProvider ==
    /\ pc = "provider"
    /\ IF config[1].ai.default_provider = "openrouter"
       THEN IF config[1].ai.openrouter # None
            THEN /\ provider' = Some(config[1].ai.openrouter[1])
                 /\ pc' = "send"
                 /\ UNCHANGED <<exit, stderr>>
            ELSE /\ Fail(Error("OpenRouter configuration not found"))
                 /\ UNCHANGED provider
       ELSE /\ Fail(Error("Unsupported provider"))
            /\ UNCHANGED provider
    /\ UNCHANGED <<cli, file, config, query, context, response, suggestion,
                   auto_confirm, should_execute, vars, final_command,
                   variables_found, inputs, child, stdout, stages,
                   completed, httpRequests, confirmPrompts, confirmAnswer,
                   spawned>>

\* main.rs:126-132 and openrouter.rs:77-108: the prompt is built and the one
\* request is sent; resp is what the service answers, sendOk whether send() did
SendRequest ==
    /\ pc = "send"
    /\ stdout' = Append(stdout, Out("Thinking...", <<>>))
    /\ stages' = stages \o <<"build", "call">>
    /\ httpRequests' =
         Append(httpRequests, ChatRequest(provider[1], query[1], context[1]))
    /\ \E sendOk \in BOOLEAN, resp \in Responses :
         IF sendOk
         THEN /\ response' = Some(resp)
              /\ completed' = completed \o <<"build", "call">>
              /\ pc' = "receive"
              /\ UNCHANGED <<exit, stderr>>
         ELSE /\ Fail(Error("Failed to send request to OpenRouter"))
              /\ completed' = Append(completed, "build")
              /\ UNCHANGED response
    /\ UNCHANGED <<cli, file, config, query, context, provider, suggestion,
                   auto_confirm, should_execute, vars, final_command,
                   variables_found, inputs, child, confirmPrompts,
                   confirmAnswer, spawned>>

\* openrouter.rs:110-131 and main.rs:133
ReceiveResponse ==
    /\ pc = "receive"
    /\ stages' = Append(stages, "parse")
    /\ LET r == ReadResponse(response[1])
       IN  IF r.ok
           THEN /\ suggestion' = Some(r.val)
                /\ completed' = Append(completed, "parse")
                /\ pc' = "confirm"
                /\ UNCHANGED <<exit, stderr>>
           ELSE /\ Fail(Error(r.val))
                /\ UNCHANGED <<suggestion, completed>>
    /\ UNCHANGED <<cli, file, config, query, context, provider, response,
                   auto_confirm, should_execute, vars, final_command,
                   variables_found, inputs, child, stdout, httpRequests,
                   confirmPrompts, confirmAnswer, spawned>>

\* executor.rs:23-37, what handle_suggestion prints before confirming
Display(sug, show_explanation) ==
    <<Out("Suggested command:", sug.command)>>
    \o (IF show_explanation
        THEN <<Out("Explanation:", sug.explanation)>> ELSE <<>>)
    \o (IF sug.warning # None
        THEN <<Out("WARNING:", sug.warning[1])>> ELSE <<>>)

ConfirmAnswers == {"y", "n", "enter"}

\* main.rs:135-140 and executor.rs:22-49, 54-58: the suggestion is shown and
\* the decision to execute is taken, by auto-confirm or by the prompt
HandleSuggestion ==
    /\ pc = "confirm"
    /\ stages' = Append(stages, "confirm")
    /\ LET auto == EffectiveAutoConfirm(cli.yes,
                                        config[1].execution.auto_confirm)
           shown == Display(suggestion[1], config[1].execution.show_explanation)
       IN  /\ auto_confirm' = Some(auto)
           /\ confirmPrompts' =
                IF auto THEN confirmPrompts ELSE confirmPrompts + 1
           /\ \E promptOk \in BOOLEAN, answer \in ConfirmAnswers :
                IF ~auto /\ ~promptOk
                THEN /\ Fail(Error("Failed to get user confirmation"))
                     /\ stdout' = stdout \o shown
                     /\ UNCHANGED <<should_execute, completed, confirmAnswer>>
                ELSE LET run == ShouldExecute(auto, answer)
                     IN  /\ should_execute' = Some(run)
                         /\ confirmAnswer' = IF auto THEN None ELSE Some(answer)
                         /\ completed' = Append(completed, "confirm")
                         /\ UNCHANGED stderr
                         /\ IF run
                            THEN /\ pc' = "find_vars"
                                 /\ stdout' = stdout \o shown
                                 /\ UNCHANGED exit
                            ELSE /\ pc' = "done"
                                 /\ stdout' = stdout \o shown
                                      \o <<Out("Command not executed.", <<>>)>>
                                 /\ exit' = Some(0)
    /\ UNCHANGED <<cli, file, config, query, context, provider, response,
                   suggestion, vars, final_command, variables_found, inputs,
                   child, httpRequests, spawned>>

\* executor.rs:105-123: the distinct placeholder names, in order
FindVars(command) == UniqueVars(CapturesIter(command, 1), <<>>)

FindVariables ==
    /\ pc = "find_vars"
    /\ stages' = Append(stages, "substitute")
    /\ final_command' = Some(suggestion[1].command)
    /\ vars' = FindVars(suggestion[1].command)
    /\ variables_found' = (vars' # <<>>)
    /\ stdout' = IF vars' # <<>>
                 THEN Append(stdout, Out("Input required:", <<>>)) ELSE stdout
    /\ pc' = "prompt"
    /\ UNCHANGED <<cli, file, exit, config, query, context, provider,
                   response, suggestion, auto_confirm, should_execute,
                   inputs, child, stderr, completed, httpRequests,
                   confirmPrompts, confirmAnswer, spawned>>

\* executor.rs:125-132, one iteration: prompt for the variable and substitute
PromptVariable ==
    /\ pc = "prompt"
    /\ vars # <<>>
    /\ \E readOk \in BOOLEAN, value \in Values :
         IF readOk
         THEN /\ inputs' = Append(inputs, [var |-> Head(vars),
                                           value |-> Some(value)])
              /\ final_command' =
                   Some(SubstituteVar(final_command[1], Head(vars), value))
              /\ vars' = Tail(vars)
              /\ UNCHANGED <<pc, exit, stderr>>
         ELSE /\ inputs' = Append(inputs, [var |-> Head(vars), value |-> None])
              /\ Fail(Error("Failed to read input"))
              /\ UNCHANGED <<final_command, vars>>
    /\ UNCHANGED <<cli, file, config, query, context, provider, response,
                   suggestion, auto_confirm, should_execute,
                   variables_found, child, stdout, stages, completed,
                   httpRequests, confirmPrompts, confirmAnswer, spawned>>

\* executor.rs:134-139: resolve_variables returns Ok(final_command)
ResolveDone ==
    /\ pc = "prompt"
    /\ vars = <<>>
    /\ stdout' = IF variables_found
                 THEN Append(stdout, Out("Final command:", final_command[1]))
                 ELSE stdout
    /\ completed' = Append(completed, "substitute")
    /\ pc' = "execute"
    /\ UNCHANGED <<cli, file, exit, config, query, context, provider,
                   response, suggestion, auto_confirm, should_execute, vars,
                   final_command, variables_found, inputs, child, stderr,
                   stages, httpRequests, confirmPrompts, confirmAnswer,
                   spawned>>

\* executor.rs:62-80: the subshell is started on the command and waited for
ExecuteAt(pcs) ==
    /\ pc \in pcs
    /\ stdout' = Append(stdout, Out("Executing...", <<>>))
    /\ stages' = Append(stages, "execute")
    /\ spawned' = Append(spawned, ShellInvocation(final_command[1]))
    /\ \E spawnOk \in BOOLEAN, result \in ChildResults :
         IF spawnOk
         THEN /\ child' = Some(result)
              /\ completed' = Append(completed, "execute")
              /\ pc' = "report"
              /\ UNCHANGED <<exit, stderr>>
         ELSE /\ Fail(Error("Failed to execute command"))
              /\ UNCHANGED <<child, completed>>
    /\ UNCHANGED <<cli, file, config, query, context, provider, response,
                   suggestion, auto_confirm, should_execute, vars,
                   final_command, variables_found, inputs, httpRequests,
                   confirmPrompts, confirmAnswer>>

\* the subshell started from inside the substitution loop
ExecuteInLoop == ExecuteAt({"prompt", "execute"})

ExecuteCommand == ExecuteAt({"execute"})

\* executor.rs:82-102 and main.rs:140-142: output is relayed, status reported
ReportStatus ==
    /\ pc = "report"
    /\ stages' = Append(stages, "report")
    /\ LET res == child[1]
           relayOut == IF res.stdout # <<>>
                       THEN <<Out("stdout", res.stdout)>> ELSE <<>>
           relayErr == IF res.stderr # <<>>
                       THEN <<ErrLine("stderr", None)>> ELSE <<>>
       IN  IF StatusSuccess(res.status)
           THEN /\ stdout' = stdout \o relayOut
                     \o <<Out("Command completed successfully", <<>>)>>
                /\ stderr' = stderr \o relayErr
                /\ completed' = Append(completed, "report")
                /\ exit' = Some(0)
                /\ pc' = "done"
           ELSE /\ stdout' = stdout \o relayOut
                /\ Fail(relayErr \o
                        <<ErrLine("Command failed with exit code: ",
                                  Some(CodeOrMinusOne(res.status)))>>)
                /\ UNCHANGED completed
    /\ UNCHANGED <<cli, file, config, query, context, provider, response,
                   suggestion, auto_confirm, should_execute, vars,
                   final_command, variables_found, inputs, child,
                   httpRequests, confirmPrompts, confirmAnswer, spawned>>

Next ==
    \/ ShowConfigPath
    \/ ConfigureCommand
    \/ LoadConfig
    \/ ValidateConfig
    \/ CheckQuery
    \/ GatherContext
    \/ CreateProvider
    \/ SendRequest
    \/ ReceiveResponse
    \/ HandleSuggestion
    \/ FindVariables
    \/ PromptVariable
    \/ ResolveDone
    \/ ExecuteCommand
    \/ ReportStatus

Spec == Init /\ [][Next]_allVars

(***************************************************************************)
(* Properties.                                                             *)
(***************************************************************************)
Done == pc = "done"

IsPrefix(a, b) == Len(a) <= Len(b) /\ a = SubSeq(b, 1, Len(a))

Last(seq) == seq[Len(seq)]

Declined == confirmAnswer \in {Some("n"), Some("enter")}

\* C1: a subshell is started only under auto-confirm or after the user
\* answered yes; once the user declines (by "n" or by the default answer),
\* no subshell is started, no variable is prompted for, and the run ends
\* with exit status 0.
C1_RunOnlyWhenConfirmed ==
    /\ spawned # <<>> =>
         (auto_confirm = Some(TRUE) \/ confirmAnswer = Some("y"))
    /\ Declined =>
         /\ spawned = <<>>
         /\ inputs = <<>>
         /\ ~Contains(stages, "substitute")
         /\ Done
         /\ exit = Some(0)
         /\ stderr = <<>>

C1_Witness ==
    /\ Done
    /\ confirmAnswer = Some("enter")
    /\ suggestion # None
    /\ exit = Some(0)
    /\ Last(stdout) = Out("Command not executed.", <<>>)

\* C2: the stages of a run with a non-empty query happen in the fixed order
\* gather, build, call, parse, confirm, substitute, execute, report, each at
\* most once, and a stage starts only when every earlier one has completed
\* successfully; the subshell is started at most once, and only after the
\* reply parsed and variable resolution returned Ok.
C2_StagesInOrder ==
    /\ IsPrefix(stages, StageOrder)
    /\ IsPrefix(completed, stages)
    /\ Len(completed) >= Len(stages) - 1
    /\ stages # <<>> => (query # None /\ Trim(query[1]) # <<>>)
    /\ Len(spawned) <= 1
    /\ spawned # <<>> =>
         /\ suggestion # None
         /\ Contains(completed, "substitute")
         /\ vars = <<>>

C2_Witness ==
    /\ Done
    /\ stages = StageOrder
    /\ completed = StageOrder
    /\ Len(inputs) = 2

\* C4: the run reports success exactly when the subshell exited with status
\* 0; when it exited with a non-zero code c the run fails with exit status 1
\* and the error carries c, or -1 when the subshell had no exit code.
C4_ExitCodePassedThrough ==
    (Done /\ child # None) =>
        LET status == child[1].status
        IN  /\ (exit = Some(0)) <=> (status = Some(0))
            /\ Contains(completed, "report") <=> (status = Some(0))
            /\ status = Some(0) =>
                 Last(stdout) = Out("Command completed successfully", <<>>)
            /\ status # Some(0) =>
                 /\ exit = Some(1)
                 /\ Last(stderr).text = "Command failed with exit code: "
                 /\ status # None => Last(stderr).code = status
                 /\ status = None => Last(stderr).code = Some(-1)

C4_Witness ==
    /\ Done
    /\ child # None
    /\ child[1].status = Some(2)
    /\ exit = Some(1)
    /\ Last(stderr) = ErrLine("Command failed with exit code: ", Some(2))

\* C6: with -y no confirmation prompt is ever shown and the suggestion goes
\* on to variable resolution and execution, whatever execution.auto_confirm
\* is in the configuration.
C6_YesSkipsConfirmation ==
    cli.yes =>
        /\ confirmPrompts = 0
        /\ confirmAnswer = None
        /\ Contains(stages, "confirm") =>
             /\ should_execute = Some(TRUE)
             /\ pc = "find_vars" \/ Contains(stages, "substitute")
        /\ (Contains(completed, "substitute") /\ pc # "execute") =>
             Len(spawned) = 1

C6_Witness ==
    /\ cli.yes
    /\ config # None
    /\ ~config[1].execution.auto_confirm
    /\ Len(spawned) = 1
    /\ confirmPrompts = 0

\* the value the user entered for a variable
EnteredValue(name) ==
    LET i == CHOOSE k \in 1..Len(inputs) : inputs[k].var = name
    IN  inputs[i].value[1]

\* the command with every placeholder replaced at once by its entered value
RECURSIVE SubstituteAll(_, _)
SubstituteAll(s, i) ==
    IF i > Len(s) THEN <<>>
    ELSE LET m == MatchAt(s, i)
         IN  IF m > 0
             THEN EnteredValue(SubSeq(s, i + 2, i + m - 3))
                      \o SubstituteAll(s, i + m)
             ELSE <<s[i]>> \o SubstituteAll(s, i + 1)

\* C3: the string resolve_variables returns is the suggested command with
\* every occurrence of every placeholder replaced by the value entered for
\* it, and everything else unchanged, whatever the entered values are.
C3_EveryPlaceholderReplacedByItsValue ==
    pc = "execute" =>
        final_command[1] = SubstituteAll(suggestion[1].command, 1)

\* the content is the JSON object {command, explanation, warning}, warning
\* being null, absent or a string
ContentIsObject(c) ==
    /\ c.kind = "object"
    /\ {"command", "explanation"} \subseteq DOMAIN c.fields
    /\ c.fields["command"].t = "string"
    /\ c.fields["explanation"].t = "string"
    /\ "warning" \in DOMAIN c.fields =>
         c.fields["warning"].t \in {"string", "null"}

\* the content is the JSON array [command, explanation, warning]
ContentIsTriple(c) ==
    /\ c.kind = "array"
    /\ DOMAIN c.fields = {"command", "explanation", "warning"}
    /\ c.fields["command"].t = "string"
    /\ c.fields["explanation"].t = "string"
    /\ c.fields["warning"].t \in {"string", "null"}

ChatReplyWithChoice(r) ==
    /\ r.status \in 200..299
    /\ r.body.chat
    /\ r.body.choices # <<>>

Received == response # None /\ pc # "receive"

SendFailed == httpRequests # <<>> /\ response = None

EndedWithOneError ==
    /\ Done
    /\ exit = Some(1)
    /\ Len(stderr) = 1
    /\ suggestion = None
    /\ confirmPrompts = 0
    /\ inputs = <<>>
    /\ spawned = <<>>

\* C5 as stated: a run sends at most one HTTP request; if sending fails, the
\* status is not a success, the body is no chat response, the choices are
\* empty or the first choice's content is not the JSON object {command,
\* explanation, warning}, the run ends with exit status 1 and one error
\* message, without a confirmation prompt and without executing anything.
C5_NonObjectContentIsAnError ==
    /\ Len(httpRequests) <= 1
    /\ Contains(stages, "call") <=> Len(httpRequests) = 1
    /\ SendFailed => EndedWithOneError
    /\ (Received /\ ~(/\ ChatReplyWithChoice(response[1])
                      /\ ContentIsObject(response[1].body.choices[1])))
         => EndedWithOneError

\* C5 amended: as above, the content being accepted when it is the JSON
\* object {command, explanation, warning} or the JSON array [command,
\* explanation, warning] of exactly these three elements; every other
\* content is an error, and an accepted one yields the suggestion.
C5_OneRequestAndErrorsEndTheRun ==
    /\ Len(httpRequests) <= 1
    /\ Contains(stages, "call") <=> Len(httpRequests) = 1
    /\ SendFailed => EndedWithOneError
    /\ Received =>
         LET r == response[1]
             accepted ==
                 /\ ChatReplyWithChoice(r)
                 /\ \/ ContentIsObject(r.body.choices[1])
                    \/ ContentIsTriple(r.body.choices[1])
         IN  /\ ~accepted => EndedWithOneError
             /\ accepted =>
                  /\ suggestion # None
                  /\ suggestion[1].command
                       = r.body.choices[1].fields["command"].s

C5_Witness ==
    /\ Done
    /\ response # None
    /\ response[1].status = 200
    /\ response[1].body.choices # <<>>
    /\ response[1].body.choices[1].kind = "array"
    /\ ~ContentIsTriple(response[1].body.choices[1])
    /\ exit = Some(1)
    /\ Len(stderr) = 1
    /\ Len(httpRequests) = 1

\* the configuration names openrouter, has an openrouter section, and its
\* api_key is neither empty nor the placeholder
ConfigIsValid(c) ==
    /\ c.ai.default_provider = "openrouter"
    /\ c.ai.openrouter # None
    /\ c.ai.openrouter[1].api_key # <<>>
    /\ c.ai.openrouter[1].api_key # PlaceholderKey

\* C7: validation passes exactly for a configuration that names openrouter,
\* has the openrouter section and an api_key that is neither empty nor
\* "sk-or-v1-..."; otherwise the run ends with exit status 1 before context
\* is gathered, the provider called or a command executed.
C7_ValidateGatesTheRun ==
    (config # None /\ pc # "validate") =>
        /\ ConfigIsValid(config[1]) => (pc = "query" \/ query # None)
        /\ ~ConfigIsValid(config[1]) =>
             /\ Done
             /\ exit = Some(1)
             /\ query = None
             /\ stages = <<>>
             /\ httpRequests = <<>>
             /\ spawned = <<>>

C7_Witness ==
    /\ Done
    /\ config # None
    /\ config[1].ai.default_provider = "openrouter"
    /\ config[1].ai.openrouter # None
    /\ config[1].ai.openrouter[1].api_key = PlaceholderKey
    /\ exit = Some(1)

\* the placeholder names that occur in a command, as literal text {{NAME}}
NameAt(cmd, i, j) == SubSeq(cmd, i + 2, j - 2)

IsPlaceholderAt(cmd, i, j) ==
    /\ j - i >= 4
    /\ j <= Len(cmd)
    /\ cmd[i] = "{" /\ cmd[i + 1] = "{" /\ cmd[j - 1] = "}" /\ cmd[j] = "}"
    /\ \A k \in (i + 2)..(j - 2) : cmd[k] \in VarChars

OccurringNames(cmd) ==
    {NameAt(cmd, p[1], p[2]) : p \in
        {q \in (1..Len(cmd)) \X (1..Len(cmd)) :
            IsPlaceholderAt(cmd, q[1], q[2])}}

FirstOccurrence(cmd, name) ==
    CHOOSE i \in 1..Len(cmd) :
        /\ IsPlaceholderAt(cmd, i, i + Len(name) + 3)
        /\ NameAt(cmd, i, i + Len(name) + 3) = name
        /\ \A h \in 1..(i - 1) :
             ~(/\ IsPlaceholderAt(cmd, h, h + Len(name) + 3)
               /\ NameAt(cmd, h, h + Len(name) + 3) = name)

\* C8: up to the start of the subshell, the user has been prompted at most
\* once per placeholder name of the command, only for names that occur in
\* it, and in order of first occurrence, no name being skipped;
\* when resolve_variables returns, every distinct name has been
\* prompted for exactly once, and a command without placeholders has caused
\* no prompt and is returned unchanged.
C8_OnePromptPerDistinctName ==
    (suggestion # None /\ spawned = <<>>) =>
        LET cmd == suggestion[1].command
            names == OccurringNames(cmd)
            asked == {inputs[i].var : i \in 1..Len(inputs)}
        IN  /\ asked \subseteq names
            /\ Len(inputs) = Cardinality(asked)
            /\ \A i, j \in 1..Len(inputs) :
                 i < j => FirstOccurrence(cmd, inputs[i].var)
                            < FirstOccurrence(cmd, inputs[j].var)
            /\ \A n \in names \ asked : \A i \in 1..Len(inputs) :
                 FirstOccurrence(cmd, inputs[i].var) < FirstOccurrence(cmd, n)
            /\ Contains(completed, "substitute") =>
                 /\ asked = names
                 /\ names = {} => (inputs = <<>> /\ final_command[1] = cmd)

C8_Witness ==
    /\ pc = "execute"
    /\ suggestion[1].command
         = Placeholder(<<"B">>) \o Placeholder(<<"A">>) \o Placeholder(<<"B">>)
    /\ Len(inputs) = 2
    /\ inputs[1].var = <<"B">>
    /\ inputs[2].var = <<"A">>

\* every part of the query is blank, so the joined query trims to nothing
BlankQuery ==
    \A i \in 1..Len(cli.query) :
        \A k \in 1..Len(cli.query[i]) : cli.query[i][k] \in WhiteSpace

HelpShown == Contains(stdout, Out("help", <<>>))

\* C9 as stated: with no query and no subcommand the run shows the help text
\* and ends successfully, without contacting the provider and without
\* executing any command. (Stated for the runs that were given no
\* --config-path flag and could read their configuration file, so that a
\* violation is a run the claim is plainly about.)
C9_BlankQueryShowsHelp ==
    (Done /\ cli.command = None /\ BlankQuery
       /\ ~cli.config_path /\ config # None) =>
        /\ HelpShown
        /\ exit = Some(0)
        /\ httpRequests = <<>>
        /\ spawned = <<>>

\* C9 amended: with no query and no subcommand the provider is never
\* contacted and nothing is executed; the help text is shown and the run
\* ends successfully when --config-path is not given and the configuration
\* loads and passes validation.
C9_BlankQueryShowsHelpWhenConfigured ==
    (cli.command = None /\ BlankQuery) =>
        /\ stages = <<>>
        /\ httpRequests = <<>>
        /\ spawned = <<>>
        /\ (Done /\ ~cli.config_path /\ config # None
              /\ ConfigIsValid(config[1])) =>
             /\ stdout = <<Out("help", <<>>)>>
             /\ exit = Some(0)
        /\ HelpShown =>
             (~cli.config_path /\ config # None /\ ConfigIsValid(config[1]))

C9_Witness ==
    /\ Done
    /\ cli.command = None
    /\ cli.query = << <<" ">> >>
    /\ HelpShown
    /\ exit = Some(0)

====
